---- MODULE Spec2Model ----
(***************************************************************************)
(* The breadcrumb toolbar of CodeEditor (vs/editor/browser/codeEditor.ts). *)
(* The file holds two variants of the class; `variant` says which one a    *)
(* behaviour runs (1: lines 25-355, with the trail stability heuristic;    *)
(* 2: lines 381-644, without it).                                          *)
(***************************************************************************)
EXTENDS Integers, Sequences, FiniteSets, TLC

VARIABLES
    variant,                  \* 1 or 2: which of the two class variants runs
    model,                    \* getModel(): the attached document, or NoModel
    position,                 \* getPosition(): the cursor
    timers,                   \* pending setTimeout(updateToolbarClosure, 100) callbacks
    updateToolbarTimeout,     \* this.updateToolbarTimeout
    updateToolbarTokenSource, \* this.updateToolbarTokenSource (0: undefined)
    allSymbolsSorted,         \* this.allSymbolsSorted / this.symbols (<<>>: null)
    breadcrumbSymbols,        \* this.breadcrumbSymbols (<<>>: undefined or [])
    toolbar,                  \* this.toolbarDomElement's children
    fetches,                  \* promises of provideDocumentSymbols not yet settled
    runs,                     \* how many times updateToolbar has run
    lastFetchRun,             \* the run that most recently called provideDocumentSymbols
    lastStep,                 \* what the most recent callback did
    symbolsArg,               \* argument of the updateToolbarWithSymbols call of that callback
    matchingSymbols,          \* its local matchingSymbols (before the heuristic)
    previousTrail,            \* this.breadcrumbSymbols as that call found it
    clearedBefore,            \* ... while the toolbar it found showed no segment of it
    settled,                  \* the run whose promise that callback settled (0: none)
    settledSince,             \* the changes of the document since that promise's fetch began
    delivered,                \* a fetch delivered a non-empty list since the last change
    disposeContentEditEvent,  \* this.disposeContentEditEvent (NoModel: null)
    subscriptions,            \* the live listeners the editor registered
    disposed,                 \* dispose() has run
    click,                    \* what the click just handled found and did to the viewport
    probe                     \* inputs and results of the pure helpers (PureSpec)

vars == <<variant, model, position, timers, updateToolbarTimeout,
          updateToolbarTokenSource, allSymbolsSorted, breadcrumbSymbols, toolbar,
          fetches, runs, lastFetchRun, lastStep, symbolsArg, matchingSymbols,
          previousTrail, clearedBefore, settled, settledSince, delivered,
          disposeContentEditEvent,
          subscriptions, disposed, click, probe>>

\* The fields _attachModel and dispose() manage.
lifeVars == <<disposeContentEditEvent, subscriptions, disposed>>

----------------------------------------------------------------------------
(* Bounds *)

MaxTimers == 2      \* pending timers
MaxRuns == 3        \* runs of updateToolbar in one behaviour of Spec
MaxRenders == 2     \* runs of updateToolbar in one behaviour of TrailSpec
MaxSymbols == 3     \* length of a provider's symbol list in TrailSpec
ProbeMaxLine == 3   \* lines of the ranges the pure helpers are probed with
ProbeMaxCol == 2    \* columns 0..ProbeMaxCol of those ranges
MaxClearRuns == 3   \* runs of updateToolbar in one behaviour of ClearSpec
MaxOrderLine == 2   \* lines of the ranges compareSymbols is probed with three at a time
MaxApplied == 2     \* successive calls of updateWithBreadcrumbSymbols on one probe

----------------------------------------------------------------------------
(* Values *)

\* JavaScript's undefined, for a field read through `r && r.field` of a
\* symbol without location or range.
Undefined == -1

NoModel == "null"
Models == {"m1", "m2"}

Range(sl, sc, el, ec) ==
    [startLineNumber |-> sl, startColumn |-> sc, endLineNumber |-> el, endColumn |-> ec]

Sym(n, r) == [name |-> n, hasRange |-> TRUE, range |-> r]

\* A symbol whose location.range is missing.
NoRangeSym(n) == [name |-> n, hasRange |-> FALSE, range |-> Range(0, 0, 0, 0)]

\* The symbols a provider may report: three nested scopes A > B > C, X
\* starting where B starts and ending earlier, Z ending in column 0, and N
\* without a range.
SymbolPool ==
    { Sym("A", Range(1, 1, 2, 2)),
      Sym("B", Range(1, 2, 2, 2)),
      Sym("C", Range(2, 1, 2, 2)),
      Sym("X", Range(1, 2, 2, 1)),
      Sym("Z", Range(1, 1, 2, 0)),
      NoRangeSym("N") }

IsInjective(s) == \A i, j \in DOMAIN s : s[i] = s[j] => i = j

\* The arrays of at most maxLen symbols provideDocumentSymbols may deliver,
\* in any order.
SymbolLists(maxLen) ==
    UNION { { s \in [1..n -> SymbolPool] : IsInjective(s) } : n \in 0..maxLen }

\* What provideDocumentSymbols delivers: null, or an array of symbols.
NullSymbols == [null |-> TRUE, list |-> <<>>]
Responses(maxLen) ==
    {NullSymbols} \cup { [null |-> FALSE, list |-> s] : s \in SymbolLists(maxLen) }

\* The symbols a provider reports in Spec: A, which spans the document, D,
\* which starts past column 1 of the second line, and N without a range.
FetchedPool ==
    { Sym("A", Range(1, 1, 2, 2)),
      Sym("D", Range(2, 2, 2, 3)),
      NoRangeSym("N") }

\* What a provider delivers in Spec: null, an empty array or one symbol.
FetchedResponses ==
    {NullSymbols} \cup { [null |-> FALSE, list |-> s] :
                            s \in {<<>>} \cup { <<x>> : x \in FetchedPool } }

\* The cursor positions: the lines the pool's ranges span and their
\* columns from 1 on.
PoolRanges == { x.range : x \in { y \in SymbolPool : y.hasRange } }
PoolLines == { r.startLineNumber : r \in PoolRanges } \cup { r.endLineNumber : r \in PoolRanges }
PoolColumns ==
    ({ r.startColumn : r \in PoolRanges } \cup { r.endColumn : r \in PoolRanges }) \ {0}
Positions == { [lineNumber |-> l, column |-> c] : l \in PoolLines, c \in PoolColumns }

----------------------------------------------------------------------------
(* Pure helpers *)

\* x > y in JavaScript, false when either side is undefined.
JsGt(x, y) == x # Undefined /\ y # Undefined /\ x > y
JsLt(x, y) == x # Undefined /\ y # Undefined /\ x < y
JsGe(x, y) == x # Undefined /\ y # Undefined /\ x >= y
JsLe(x, y) == x # Undefined /\ y # Undefined /\ x <= y

\* A number used as a condition: zero and undefined are falsy.
Truthy(x) == x # Undefined /\ x # 0

\* r && r.field
RangeField(s, f) == IF s.hasRange THEN s.range[f] ELSE Undefined

\* compareSymbols with the start columns compared the wrong way round.
compareSymbolsColumnsSwapped(s1, s2) ==
    LET startLineNumber1 == RangeField(s1, "startLineNumber")
        startLineNumber2 == RangeField(s2, "startLineNumber")
        startColumn1 == RangeField(s1, "startColumn")
        startColumn2 == RangeField(s2, "startColumn")
        endLineNumber1 == RangeField(s1, "endLineNumber")
        endLineNumber2 == RangeField(s2, "endLineNumber")
        endColumn1 == RangeField(s1, "endColumn")
        endColumn2 == RangeField(s2, "endColumn")
    IN  IF JsGt(startLineNumber1, startLineNumber2) THEN 1
        ELSE IF JsLt(startLineNumber1, startLineNumber2) THEN -1
        ELSE IF JsGt(startColumn1, startColumn2) THEN -1
        ELSE IF JsLt(startColumn1, startColumn2) THEN 1
        ELSE IF JsGt(endLineNumber1, endLineNumber2) THEN -1
        ELSE IF JsLt(endLineNumber1, endLineNumber2) THEN 1
        ELSE IF JsGt(endColumn1, endColumn2) THEN -1
        ELSE IF JsLt(endColumn1, endColumn2) THEN 1
        ELSE 0

\* compareSymbols with the end points compared like the start points.
compareSymbolsEndAscending(s1, s2) ==
    LET startLineNumber1 == RangeField(s1, "startLineNumber")
        startLineNumber2 == RangeField(s2, "startLineNumber")
        startColumn1 == RangeField(s1, "startColumn")
        startColumn2 == RangeField(s2, "startColumn")
        endLineNumber1 == RangeField(s1, "endLineNumber")
        endLineNumber2 == RangeField(s2, "endLineNumber")
        endColumn1 == RangeField(s1, "endColumn")
        endColumn2 == RangeField(s2, "endColumn")
    IN  IF JsGt(startLineNumber1, startLineNumber2) THEN 1
        ELSE IF JsLt(startLineNumber1, startLineNumber2) THEN -1
        ELSE IF JsGt(startColumn1, startColumn2) THEN 1
        ELSE IF JsLt(startColumn1, startColumn2) THEN -1
        ELSE IF JsGt(endLineNumber1, endLineNumber2) THEN 1
        ELSE IF JsLt(endLineNumber1, endLineNumber2) THEN -1
        ELSE IF JsGt(endColumn1, endColumn2) THEN 1
        ELSE IF JsLt(endColumn1, endColumn2) THEN -1
        ELSE 0

compareSymbols(s1, s2) ==
    LET startLineNumber1 == RangeField(s1, "startLineNumber")
        startLineNumber2 == RangeField(s2, "startLineNumber")
        startColumn1 == RangeField(s1, "startColumn")
        startColumn2 == RangeField(s2, "startColumn")
        endLineNumber1 == RangeField(s1, "endLineNumber")
        endLineNumber2 == RangeField(s2, "endLineNumber")
        endColumn1 == RangeField(s1, "endColumn")
        endColumn2 == RangeField(s2, "endColumn")
    IN  IF JsGt(startLineNumber1, startLineNumber2) THEN 1
        ELSE IF JsLt(startLineNumber1, startLineNumber2) THEN -1
        ELSE IF JsGt(startColumn1, startColumn2) THEN 1
        ELSE IF JsLt(startColumn1, startColumn2) THEN -1
        ELSE IF JsGt(endLineNumber1, endLineNumber2) THEN -1
        ELSE IF JsLt(endLineNumber1, endLineNumber2) THEN 1
        ELSE IF JsGt(endColumn1, endColumn2) THEN -1
        ELSE IF JsLt(endColumn1, endColumn2) THEN 1
        ELSE 0

\* One insertion of Array.prototype.sort on a short array: x moves left past
\* every element the comparator puts after it.
RECURSIVE SortInsert(_, _)
SortInsert(sorted, x) ==
    IF sorted = <<>> THEN <<x>>
    ELSE IF compareSymbols(sorted[Len(sorted)], x) > 0
         THEN Append(SortInsert(SubSeq(sorted, 1, Len(sorted) - 1), x), sorted[Len(sorted)])
         ELSE Append(sorted, x)

\* symbols.sort(CodeEditor.compareSymbols): the engine's stable insertion sort.
RECURSIVE SortSymbols(_)
SortSymbols(symbols) ==
    IF symbols = <<>> THEN <<>>
    ELSE SortInsert(SortSymbols(SubSeq(symbols, 1, Len(symbols) - 1)), symbols[Len(symbols)])

\* positionPairWithinRange with the end column compared strictly.
positionPairWithinRangeEndExcluded(lineNumber, column, withinRange) ==
    IF \/ lineNumber > withinRange.startLineNumber
       \/ (lineNumber = withinRange.startLineNumber /\ JsGe(column, withinRange.startColumn))
    THEN \/ lineNumber < withinRange.endLineNumber
         \/ /\ lineNumber = withinRange.endLineNumber
            /\ Truthy(column)
            /\ JsLt(column, withinRange.endColumn)
    ELSE FALSE

\* positionPairWithinRange without the test that the column is truthy.
positionPairWithinRangeNoZeroGuard(lineNumber, column, withinRange) ==
    IF \/ lineNumber > withinRange.startLineNumber
       \/ (lineNumber = withinRange.startLineNumber /\ JsGe(column, withinRange.startColumn))
    THEN \/ lineNumber < withinRange.endLineNumber
         \/ /\ lineNumber = withinRange.endLineNumber
            /\ JsLe(column, withinRange.endColumn)
    ELSE FALSE

positionPairWithinRange(lineNumber, column, withinRange) ==
    IF \/ lineNumber > withinRange.startLineNumber
       \/ (lineNumber = withinRange.startLineNumber /\ JsGe(column, withinRange.startColumn))
    THEN \/ lineNumber < withinRange.endLineNumber
         \/ /\ lineNumber = withinRange.endLineNumber
            /\ Truthy(column)
            /\ JsLe(column, withinRange.endColumn)
    ELSE FALSE

positionWithinRange(pos, withinRange) ==
    positionPairWithinRange(pos.lineNumber, pos.column, withinRange)

\* The second variant's positionWithinRange, written out in place.
positionWithinRange2(pos, range) ==
    IF \/ pos.lineNumber > range.startLineNumber
       \/ (pos.lineNumber = range.startLineNumber /\ JsGe(pos.column, range.startColumn))
    THEN \/ pos.lineNumber < range.endLineNumber
         \/ /\ pos.lineNumber = range.endLineNumber
            /\ Truthy(pos.column)
            /\ JsLe(pos.column, range.endColumn)
    ELSE FALSE

rangeWithinRange(testRange, withinRange) ==
    /\ positionPairWithinRange(testRange.startLineNumber, testRange.startColumn, withinRange)
    /\ positionPairWithinRange(testRange.endLineNumber, testRange.endColumn, withinRange)

\* The loop leaving at the first symbol without a range (break for continue).
RECURSIVE MatchingSymbolsBreak(_, _, _)
MatchingSymbolsBreak(v, sorted, pos) ==
    IF sorted = <<>> THEN <<>>
    ELSE LET sym == sorted[1]
             rest == MatchingSymbolsBreak(v, SubSeq(sorted, 2, Len(sorted)), pos)
             within == IF v = 1 THEN positionWithinRange(pos, sym.range)
                       ELSE positionWithinRange2(pos, sym.range)
         IN  IF ~sym.hasRange THEN <<>>
             ELSE IF within THEN <<sym>> \o rest
             ELSE rest

\* The loop without its guard for a missing range.
RECURSIVE MatchingSymbolsNoSkip(_, _, _)
MatchingSymbolsNoSkip(v, sorted, pos) ==
    IF sorted = <<>> THEN <<>>
    ELSE LET sym == sorted[1]
             rest == MatchingSymbolsNoSkip(v, SubSeq(sorted, 2, Len(sorted)), pos)
             within == IF v = 1 THEN positionWithinRange(pos, sym.range)
                       ELSE positionWithinRange2(pos, sym.range)
         IN  IF ~sym.hasRange \/ within THEN <<sym>> \o rest
             ELSE rest

\* The loop of updateToolbarWithSymbols over the sorted array: the symbols
\* that have a range and whose range the position is within, in array order.
RECURSIVE MatchingSymbols(_, _, _)
MatchingSymbols(v, sorted, pos) ==
    IF sorted = <<>> THEN <<>>
    ELSE LET sym == sorted[1]
             rest == MatchingSymbols(v, SubSeq(sorted, 2, Len(sorted)), pos)
             within == IF v = 1 THEN positionWithinRange(pos, sym.range)
                       ELSE positionWithinRange2(pos, sym.range)
         IN  IF ~sym.hasRange THEN rest
             ELSE IF within THEN <<sym>> \o rest
             ELSE rest

\* updateWithBreadcrumbSymbols slicing the previous trail one element early.
BreadcrumbTrailSliceEarly(previous, matching) ==
    IF Len(previous) > 0 /\ Len(matching) > 0 /\ Len(previous) > Len(matching)
    THEN LET highlightSymbol == matching[Len(matching)]
             extraSymbolsTrail == SubSeq(previous, Len(matching), Len(previous))
             leadingMatch ==
                 \A i \in 1..Len(matching) :
                     /\ rangeWithinRange(previous[i].range, matching[i].range)
                     /\ rangeWithinRange(matching[i].range, previous[i].range)
             trailInside ==
                 \A i \in 1..Len(extraSymbolsTrail) :
                     rangeWithinRange(extraSymbolsTrail[i].range, highlightSymbol.range)
         IN  IF leadingMatch /\ trailInside THEN matching \o extraSymbolsTrail
             ELSE matching
    ELSE matching

\* updateWithBreadcrumbSymbols comparing the leading symbols in one
\* direction only.
BreadcrumbTrailOneWayMatch(previous, matching) ==
    IF Len(previous) > 0 /\ Len(matching) > 0 /\ Len(previous) > Len(matching)
    THEN LET highlightSymbol == matching[Len(matching)]
             extraSymbolsTrail == SubSeq(previous, Len(matching) + 1, Len(previous))
             leadingMatch ==
                 \A i \in 1..Len(matching) :
                     rangeWithinRange(previous[i].range, matching[i].range)
             trailInside ==
                 \A i \in 1..Len(extraSymbolsTrail) :
                     rangeWithinRange(extraSymbolsTrail[i].range, highlightSymbol.range)
         IN  IF leadingMatch /\ trailInside THEN matching \o extraSymbolsTrail
             ELSE matching
    ELSE matching

\* updateWithBreadcrumbSymbols without the test that the new trail is
\* non-empty.
BreadcrumbTrailNoEmptyTest(previous, matching) ==
    IF Len(previous) > 0 /\ Len(previous) > Len(matching)
    THEN LET extraSymbolsTrail == SubSeq(previous, Len(matching) + 1, Len(previous))
             leadingMatch ==
                 \A i \in 1..Len(matching) :
                     /\ rangeWithinRange(previous[i].range, matching[i].range)
                     /\ rangeWithinRange(matching[i].range, previous[i].range)
             trailInside ==
                 \A i \in 1..Len(extraSymbolsTrail) :
                     \/ Len(matching) = 0
                     \/ rangeWithinRange(extraSymbolsTrail[i].range,
                                         matching[Len(matching)].range)
         IN  IF leadingMatch /\ trailInside THEN matching \o extraSymbolsTrail
             ELSE matching
    ELSE matching

\* updateWithBreadcrumbSymbols slicing the previous trail one element short.
BreadcrumbTrailDropsLast(previous, matching) ==
    IF Len(previous) > 0 /\ Len(matching) > 0 /\ Len(previous) > Len(matching)
    THEN LET highlightSymbol == matching[Len(matching)]
             extraSymbolsTrail == SubSeq(previous, Len(matching) + 1, Len(previous) - 1)
             leadingMatch ==
                 \A i \in 1..Len(matching) :
                     /\ rangeWithinRange(previous[i].range, matching[i].range)
                     /\ rangeWithinRange(matching[i].range, previous[i].range)
             trailInside ==
                 \A i \in 1..Len(extraSymbolsTrail) :
                     rangeWithinRange(extraSymbolsTrail[i].range, highlightSymbol.range)
         IN  IF leadingMatch /\ trailInside THEN matching \o extraSymbolsTrail
             ELSE matching
    ELSE matching

\* The trail updateWithBreadcrumbSymbols stores and renders, given
\* this.breadcrumbSymbols and the newly matched symbols.
BreadcrumbTrail(previous, matching) ==
    IF Len(previous) > 0 /\ Len(matching) > 0 /\ Len(previous) > Len(matching)
    THEN LET highlightSymbol == matching[Len(matching)]
             extraSymbolsTrail == SubSeq(previous, Len(matching) + 1, Len(previous))
             leadingMatch ==
                 \A i \in 1..Len(matching) :
                     /\ rangeWithinRange(previous[i].range, matching[i].range)
                     /\ rangeWithinRange(matching[i].range, previous[i].range)
             trailInside ==
                 \A i \in 1..Len(extraSymbolsTrail) :
                     rangeWithinRange(extraSymbolsTrail[i].range, highlightSymbol.range)
         IN  IF leadingMatch /\ trailInside THEN matching \o extraSymbolsTrail
             ELSE matching
    ELSE matching

----------------------------------------------------------------------------
(* The host editor's viewport (CodeEditorWidget): LineCount lines of equal
   height under a viewport of ViewportHeight pixels *)

LineHeight == 20
LineCount == 3
ViewportHeight == 40
ScrollStep == 10

\* The pixels the click handler of the first variant leaves above the line.
ScrollMargin == 10

getTopForLineNumber(lineNumber) == (lineNumber - 1) * LineHeight

getScrollHeight == LineCount * LineHeight

MaxScrollTop == getScrollHeight - ViewportHeight

ScrollTops == { t \in 0..MaxScrollTop : t % ScrollStep = 0 }

\* setScrollTop keeps the position inside the scrollable area.
setScrollTop(newScrollTop) ==
    IF newScrollTop < 0 THEN 0
    ELSE IF newScrollTop > MaxScrollTop THEN MaxScrollTop
    ELSE newScrollTop

\* Line lineNumber lies wholly inside the viewport scrolled to top.
FullyVisible(lineNumber, top) ==
    /\ getTopForLineNumber(lineNumber) >= top
    /\ getTopForLineNumber(lineNumber) + LineHeight <= top + ViewportHeight

CompletelyVisibleLines(top) == { l \in 1..LineCount : FullyVisible(l, top) }

\* The columns the host may report as the end of the last visible line.
VisibleEndColumns == PoolColumns

\* The range from the start of the first completely visible line to the
\* end of the last one.
getCompletelyVisibleLinesRangeInViewport(top, endColumn) ==
    LET lines == CompletelyVisibleLines(top)
        first == CHOOSE l \in lines : \A k \in lines : l <= k
        last == CHOOSE l \in lines : \A k \in lines : l >= k
    IN  Range(first, 1, last, endColumn)

----------------------------------------------------------------------------
(* State after construction *)

NoCall == [null |-> TRUE, list |-> <<>>]
NoProbe == [fn |-> "none"]
NoClick == [line |-> 0, visible |-> FALSE, scrollBefore |-> 0, scrollTop |-> 0,
            start |-> <<0, 0>>]

\* The listener of onDidChangeCursorPosition the constructor registers.
CursorListener == "cursor"

InitEditor ==
    /\ variant \in {1, 2}
    /\ model = NoModel
    /\ position = [lineNumber |-> 1, column |-> 1]
    /\ timers = 1
    /\ updateToolbarTimeout = 0
    /\ updateToolbarTokenSource = 0
    /\ allSymbolsSorted = <<>>
    /\ breadcrumbSymbols = <<>>
    /\ toolbar = [placeholder |-> TRUE, segments |-> <<>>]
    /\ fetches = {}
    /\ runs = 0
    /\ lastFetchRun = 0
    /\ lastStep = "construct"
    /\ symbolsArg = NoCall
    /\ matchingSymbols = <<>>
    /\ previousTrail = <<>>
    /\ clearedBefore = FALSE
    /\ settled = 0
    /\ settledSince = {}
    /\ delivered = FALSE
    /\ disposeContentEditEvent = NoModel
    /\ subscriptions = {CursorListener}
    /\ disposed = FALSE
    /\ click = NoClick

Init ==
    /\ InitEditor
    /\ probe = NoProbe

----------------------------------------------------------------------------
(* Operations *)

\* queueUpdateToolbar: the handle setTimeout returns is dropped, so
\* updateToolbarTimeout stays undefined (0) and clearTimeout is never reached.
queueUpdateToolbar ==
    /\ timers' = (IF updateToolbarTimeout # 0 THEN timers - 1 ELSE timers) + 1
    /\ UNCHANGED updateToolbarTimeout

\* clearToolbar: innerHTML = '' when the toolbar has a child.
ClearedToolbar == [placeholder |-> FALSE, segments |-> <<>>]

\* A clearToolbar that also forgets the stored trail.
clearToolbarForgetsTrail ==
    /\ toolbar' = ClearedToolbar
    /\ breadcrumbSymbols' = <<>>

\* clearToolbar() as the only effect of a refresh: it empties the toolbar's
\* element and assigns no field.
clearToolbar ==
    /\ toolbar' = ClearedToolbar
    /\ UNCHANGED breadcrumbSymbols

\* The segments appended after clearToolbar, one span per symbol.
RenderedToolbar(trail) == [placeholder |-> FALSE, segments |-> trail]

\* A callback that does not reach updateToolbarWithSymbols.
NoSymbolsCall ==
    /\ symbolsArg' = NoCall
    /\ matchingSymbols' = <<>>
    /\ previousTrail' = <<>>
    /\ clearedBefore' = FALSE

\* updateToolbarWithSymbols(symbols), with updateWithBreadcrumbSymbols in
\* the first variant and the rendering loop in the second.
updateToolbarWithSymbols(symbols) ==
    /\ symbolsArg' = symbols
    /\ IF symbols.null
       THEN /\ clearToolbar
            /\ matchingSymbols' = <<>>
            /\ previousTrail' = <<>>
            /\ clearedBefore' = FALSE
       ELSE LET sorted == SortSymbols(symbols.list)
                matching == MatchingSymbols(variant, sorted, position)
            IN  /\ matchingSymbols' = matching
                /\ previousTrail' = breadcrumbSymbols
                /\ clearedBefore' = (Len(breadcrumbSymbols) > 0
                                      /\ Len(toolbar.segments) = 0)
                /\ IF variant = 1
                   THEN /\ breadcrumbSymbols' = BreadcrumbTrail(breadcrumbSymbols, matching)
                        /\ toolbar' = RenderedToolbar(breadcrumbSymbols')
                   ELSE /\ toolbar' = RenderedToolbar(matching)
                        /\ UNCHANGED breadcrumbSymbols

\* What DocumentSymbolProviderRegistry.ordered(model)[0] is for the attached
\* document at the time of a run, and how its provideDocumentSymbols answers:
\* no provider, an array or null at once, or a promise.
ProviderKinds(m) == IF m = NoModel THEN {"none"} ELSE {"none", "sync", "async"}

\* The same with providers that never answer with a promise.
SyncProviderKinds(m) == ProviderKinds(m) \ {"async"}

\* The response is a non-empty array of symbols.
Delivers(symbols) == ~symbols.null /\ Len(symbols.list) > 0

\* The promise callback without its token check.
IsCurrentTokenUnchecked(tokenSource) == TRUE

\* The token check of the promise callback.
IsCurrentToken(tokenSource) == updateToolbarTokenSource = tokenSource

\* The token source updateToolbar creates for the fetch of run r.
NewTokenSource(r) == r

\* updateToolbar, run by a timer, with the registry's answer being one of
\* kinds and the provider's one of responses.
updateToolbar(kinds, responses, maxRuns) ==
    /\ timers > 0
    /\ runs < maxRuns
    /\ timers' = timers - 1
    /\ runs' = runs + 1
    /\ settled' = 0
    /\ settledSince' = {}
    /\ click' = NoClick
    /\ UNCHANGED <<variant, model, position, updateToolbarTimeout, allSymbolsSorted,
                   lifeVars, probe>>
    /\ IF Len(allSymbolsSorted) > 0
       THEN /\ updateToolbarWithSymbols([null |-> FALSE, list |-> allSymbolsSorted])
            /\ lastStep' = "cached"
            /\ UNCHANGED <<updateToolbarTokenSource, fetches, lastFetchRun, delivered>>
       ELSE \E kind \in kinds :
              CASE kind = "none" ->
                     /\ clearToolbar
                     /\ lastStep' = "noProvider"
                     /\ NoSymbolsCall
                     /\ UNCHANGED <<updateToolbarTokenSource, fetches, lastFetchRun,
                                    delivered>>
                [] kind = "sync" ->
                     \E symbols \in responses :
                        /\ updateToolbarTokenSource' = NewTokenSource(runs')
                        /\ lastFetchRun' = runs'
                        /\ updateToolbarWithSymbols(symbols)
                        /\ delivered' = (delivered \/ Delivers(symbols))
                        /\ lastStep' = "sync"
                        /\ UNCHANGED fetches
                [] kind = "async" ->
                     /\ updateToolbarTokenSource' = NewTokenSource(runs')
                     /\ lastFetchRun' = runs'
                     /\ fetches' = fetches \cup {[tokenSource |-> NewTokenSource(runs'),
                                                  run |-> runs', since |-> {}]}
                     /\ lastStep' = "fetch"
                     /\ NoSymbolsCall
                     /\ UNCHANGED <<toolbar, breadcrumbSymbols, delivered>>

\* A promise of provideDocumentSymbols resolves: the callback of lines 144-150.
ResolveFetch ==
    \E f \in fetches, symbols \in FetchedResponses :
        /\ fetches' = fetches \ {f}
        /\ settled' = f.run
        /\ settledSince' = f.since
        /\ click' = NoClick
        /\ UNCHANGED <<variant, model, position, timers, updateToolbarTimeout,
                       updateToolbarTokenSource, allSymbolsSorted, runs, lastFetchRun,
                       lifeVars, probe>>
        /\ IF ~IsCurrentToken(f.tokenSource)
           THEN /\ lastStep' = "discard"
                /\ NoSymbolsCall
                /\ UNCHANGED <<toolbar, breadcrumbSymbols, delivered>>
           ELSE /\ lastStep' = "resolve"
                /\ updateToolbarWithSymbols(symbols)
                /\ delivered' = (delivered \/ (Delivers(symbols) /\ f.since = {}))

\* A rejection handler that clears the toolbar and the stored trail.
onRejectedClears ==
    /\ toolbar' = ClearedToolbar
    /\ breadcrumbSymbols' = <<>>
    /\ UNCHANGED <<allSymbolsSorted, updateToolbarTokenSource, delivered>>

\* then() is given no second callback: on rejection no code of the editor runs.
onRejected ==
    UNCHANGED <<toolbar, breadcrumbSymbols, allSymbolsSorted, updateToolbarTokenSource,
                delivered>>

\* A promise of provideDocumentSymbols rejects.
RejectFetch ==
    \E f \in fetches :
        /\ fetches' = fetches \ {f}
        /\ settled' = f.run
        /\ settledSince' = f.since
        /\ click' = NoClick
        /\ lastStep' = "reject"
        /\ NoSymbolsCall
        /\ onRejected
        /\ UNCHANGED <<variant, model, position, timers, updateToolbarTimeout, runs,
                       lastFetchRun, lifeVars, probe>>

\* What an event handler that only queues a refresh leaves alone.
QueueOnly ==
    /\ queueUpdateToolbar
    /\ NoSymbolsCall
    /\ settled' = 0
    /\ settledSince' = {}
    /\ click' = NoClick
    /\ UNCHANGED <<variant, updateToolbarTokenSource, breadcrumbSymbols, toolbar,
                   runs, lastFetchRun, disposed, probe>>

\* The fetches under way, marked as begun before a change of the document
\* of the given kind ("content" or "attach").
EditedFetches(kind) == { [f EXCEPT !.since = @ \cup {kind}] : f \in fetches }

\* onDidChangeCursorPosition: the cursor of the attached document moved.
CursorMove ==
    \E p \in Positions :
        /\ ~disposed
        /\ CursorListener \in subscriptions
        /\ model # NoModel
        /\ p # position
        /\ timers < MaxTimers
        /\ position' = p
        /\ lastStep' = "cursor"
        /\ QueueOnly
        /\ UNCHANGED <<model, allSymbolsSorted, fetches, delivered,
                       disposeContentEditEvent, subscriptions>>

\* onDidChangeContent of a document whose listener is live.
ContentChange ==
    /\ ~disposed
    /\ model # NoModel
    /\ model \in subscriptions
    /\ timers < MaxTimers
    /\ allSymbolsSorted' = <<>>
    /\ fetches' = EditedFetches("content")
    /\ delivered' = FALSE
    /\ lastStep' = "content"
    /\ QueueOnly
    /\ UNCHANGED <<model, position, disposeContentEditEvent, subscriptions>>

\* _attachModel(m); the cursor of the new document is the super class's.
AttachModel ==
    \E m \in Models \cup {NoModel}, p \in Positions :
        /\ ~disposed
        /\ timers < MaxTimers
        /\ allSymbolsSorted' = <<>>
        /\ model' = m
        /\ position' = p
        /\ disposeContentEditEvent' = m
        /\ subscriptions' = (subscriptions \ {disposeContentEditEvent})
                                \cup (IF m # NoModel THEN {m} ELSE {})
        /\ fetches' = EditedFetches("attach")
        /\ delivered' = FALSE
        /\ lastStep' = "attach"
        /\ QueueOnly

\* What a callback of the host that the toolbar does not render in resets.
NoRender ==
    /\ NoSymbolsCall
    /\ settled' = 0
    /\ settledSince' = {}
    /\ UNCHANGED <<variant, model, updateToolbarTokenSource, allSymbolsSorted,
                   breadcrumbSymbols, toolbar, fetches, runs, lastFetchRun, delivered,
                   probe>>

\* symSpan.onclick of segment i, the user having scrolled the viewport to
\* top: the cursor goes to the start of the segment's symbol, which raises
\* onDidChangeCursorPosition when it moves the cursor, and the viewport
\* scrolls when the variant's test says so.
Click ==
    \E i \in DOMAIN toolbar.segments, top \in ScrollTops, endColumn \in VisibleEndColumns :
        LET sym == toolbar.segments[i]
            newPos == [lineNumber |-> sym.range.startLineNumber,
                       column |-> sym.range.startColumn]
            posTop == getTopForLineNumber(newPos.lineNumber)
            visibleRange == getCompletelyVisibleLinesRangeInViewport(top, endColumn)
            scrolls == IF variant = 1
                       THEN ~positionWithinRange(newPos, visibleRange)
                       ELSE posTop < top \/ posTop > top + getScrollHeight
            newScrollTop == IF variant = 1 THEN posTop - ScrollMargin ELSE posTop
            moves == newPos # position /\ CursorListener \in subscriptions
        IN  /\ ~disposed
            /\ model # NoModel
            /\ moves => timers < MaxTimers
            /\ position' = newPos
            /\ IF moves THEN queueUpdateToolbar
                        ELSE UNCHANGED <<timers, updateToolbarTimeout>>
            /\ click' = [line |-> newPos.lineNumber,
                         visible |-> FullyVisible(newPos.lineNumber, top),
                         scrollBefore |-> top,
                         scrollTop |-> IF scrolls THEN setScrollTop(newScrollTop) ELSE top,
                         start |-> <<newPos.lineNumber, newPos.column>>]
            /\ lastStep' = "click"
            /\ NoRender
            /\ UNCHANGED lifeVars

\* super.dispose(): the host ends the editor and lets go of its document;
\* the listeners this class registered are this class's to release.
superDispose ==
    /\ disposed' = TRUE
    /\ model' = NoModel

\* dispose(): releases the content listener, then the host's dispose.
Dispose ==
    /\ ~disposed
    /\ subscriptions' = subscriptions \ {disposeContentEditEvent}
    /\ disposeContentEditEvent' = NoModel
    /\ superDispose
    /\ lastStep' = "dispose"
    /\ NoSymbolsCall
    /\ settled' = 0
    /\ settledSince' = {}
    /\ click' = NoClick
    /\ UNCHANGED <<variant, position, timers, updateToolbarTimeout,
                   updateToolbarTokenSource, allSymbolsSorted, breadcrumbSymbols, toolbar,
                   fetches, runs, lastFetchRun, delivered, probe>>

\* A timer fires, with any provider.
TimerFires == updateToolbar(ProviderKinds(model), FetchedResponses, MaxRuns)

\* A timer fires, with a provider that answers at once.
Refresh == updateToolbar(SyncProviderKinds(model), Responses(MaxSymbols), MaxRenders)

Next ==
    \/ TimerFires
    \/ ResolveFetch
    \/ RejectFetch
    \/ CursorMove
    \/ ContentChange
    \/ AttachModel
    \/ Click
    \/ Dispose

Spec == Init /\ [][Next]_vars

\* The refresh cycle with providers that answer at once, over every symbol
\* list of up to MaxSymbols symbols.
TrailNext ==
    \/ Refresh
    \/ CursorMove
    \/ ContentChange
    \/ AttachModel

TrailSpec == Init /\ [][TrailNext]_vars

\* The nested scopes A > B > C of the pool.
NestedPool ==
    { Sym("A", Range(1, 1, 2, 2)),
      Sym("B", Range(1, 2, 2, 2)),
      Sym("C", Range(2, 1, 2, 2)) }

\* What a provider delivers in ClearSpec: null, or some of the nested
\* scopes in any order.
NestedResponses ==
    {NullSymbols} \cup
    { [null |-> FALSE, list |-> l] :
        l \in UNION { { q \in [1..n -> NestedPool] : IsInjective(q) } : n \in 0..3 } }

\* A timer fires, with any provider, answering at once with nested scopes.
ClearRefresh == updateToolbar(ProviderKinds(model), NestedResponses, MaxClearRuns)

\* Refreshes that render, clear and render again: up to MaxClearRuns runs
\* over the nested scopes of documents being attached and detached, with
\* promises resolving and the cursor moving in between.
ClearNext ==
    \/ ClearRefresh
    \/ ResolveFetch
    \/ CursorMove
    \/ AttachModel

ClearSpec == Init /\ [][ClearNext]_vars

----------------------------------------------------------------------------
(* The pure helpers on their own: compareSymbols and positionWithinRange
   applied to every pair of symbols and every position and range of the
   probe grid. *)

ProbeRanges ==
    { Range(sl, sc, el, ec) : sl \in 1..ProbeMaxLine, sc \in 0..ProbeMaxCol,
                              el \in 1..ProbeMaxLine, ec \in 0..ProbeMaxCol }

ProbeSymbols == { Sym("s", r) : r \in ProbeRanges } \cup { NoRangeSym("s") }

\* The probed columns include zero and undefined.
ProbePositions ==
    { [lineNumber |-> l, column |-> c] :
        l \in 1..ProbeMaxLine, c \in {Undefined} \cup 0..ProbeMaxCol }

CompareProbes ==
    { [fn |-> "compareSymbols", s1 |-> a, s2 |-> b, done |-> FALSE, result |-> 0] :
        a \in ProbeSymbols, b \in ProbeSymbols }

\* Well-formed ranges (start not after end) over the columns of the pool.
OrderRanges ==
    { r \in ProbeRanges :
        /\ r.startLineNumber <= MaxOrderLine
        /\ r.endLineNumber <= MaxOrderLine
        /\ r.startColumn \in PoolColumns
        /\ r.endColumn \in PoolColumns
        /\ \/ r.startLineNumber < r.endLineNumber
           \/ r.startLineNumber = r.endLineNumber /\ r.startColumn <= r.endColumn }

OrderSymbols == { Sym("s", r) : r \in OrderRanges } \cup { NoRangeSym("s") }

\* Three symbols, for the comparisons a sort makes among them.
OrderProbes ==
    { [fn |-> "compareSymbols3", a |-> a, b |-> b, c |-> c, done |-> FALSE,
       ab |-> 0, ba |-> 0, bc |-> 0, ac |-> 0] :
        a \in OrderSymbols, b \in OrderSymbols, c \in OrderSymbols }

WithinProbes ==
    { [fn |-> "positionWithinRange", pos |-> p, range |-> r, done |-> FALSE, result |-> FALSE] :
        p \in ProbePositions, r \in ProbeRanges }

\* The trails updateToolbarWithSymbols can compute: the symbols of a sorted
\* list whose range contains some cursor position.
ProbeTrails ==
    { MatchingSymbols(1, SortSymbols(l), p) : l \in SymbolLists(MaxSymbols), p \in Positions }

\* this.breadcrumbSymbols and the new trail of a call of
\* updateWithBreadcrumbSymbols; stored is this.breadcrumbSymbols as the
\* calls so far left it, first what the first call stored.
TrailProbes ==
    { [fn |-> "updateWithBreadcrumbSymbols", previous |-> P, matching |-> T,
       applied |-> 0, stored |-> P, first |-> <<>>] : P \in ProbeTrails, T \in ProbeTrails }

PureInit ==
    /\ InitEditor
    /\ probe \in CompareProbes \cup WithinProbes \cup TrailProbes \cup OrderProbes

UnchangedEditor ==
    UNCHANGED <<variant, model, position, timers, updateToolbarTimeout,
                updateToolbarTokenSource, allSymbolsSorted, breadcrumbSymbols, toolbar,
                fetches, runs, lastFetchRun, lastStep, symbolsArg, matchingSymbols,
                previousTrail, clearedBefore, settled, settledSince, delivered,
                lifeVars, click>>

ApplyCompareSymbols ==
    /\ probe.fn = "compareSymbols"
    /\ ~probe.done
    /\ probe' = [probe EXCEPT !.done = TRUE, !.result = compareSymbols(probe.s1, probe.s2)]
    /\ UnchangedEditor

ApplyPositionWithinRange ==
    /\ probe.fn = "positionWithinRange"
    /\ ~probe.done
    /\ probe' = [probe EXCEPT !.done = TRUE,
                              !.result = IF variant = 1
                                         THEN positionWithinRange(probe.pos, probe.range)
                                         ELSE positionWithinRange2(probe.pos, probe.range)]
    /\ UnchangedEditor

\* updateWithBreadcrumbSymbols(matching), called again with the same new
\* trail after it has stored its result.
ApplyUpdateWithBreadcrumbSymbols ==
    /\ probe.fn = "updateWithBreadcrumbSymbols"
    /\ variant = 1
    /\ probe.applied < MaxApplied
    /\ LET result == BreadcrumbTrail(probe.stored, probe.matching)
       IN  probe' = [probe EXCEPT !.applied = @ + 1,
                                  !.stored = result,
                                  !.first = IF probe.applied = 0 THEN result ELSE @]
    /\ UnchangedEditor

\* compareSymbols applied to the pairs of three symbols.
ApplyCompareSymbolsAmongThree ==
    /\ probe.fn = "compareSymbols3"
    /\ ~probe.done
    /\ probe' = [probe EXCEPT !.done = TRUE,
                              !.ab = compareSymbols(probe.a, probe.b),
                              !.ba = compareSymbols(probe.b, probe.a),
                              !.bc = compareSymbols(probe.b, probe.c),
                              !.ac = compareSymbols(probe.a, probe.c)]
    /\ UnchangedEditor

PureNext ==
    \/ ApplyCompareSymbolsAmongThree
    \/ ApplyCompareSymbols
    \/ ApplyPositionWithinRange
    \/ ApplyUpdateWithBreadcrumbSymbols

PureSpec == PureInit /\ [][PureNext]_vars

----------------------------------------------------------------------------
(* Vocabulary of the properties: points compared lexicographically *)

StartOf(r) == <<r.startLineNumber, r.startColumn>>
EndOf(r) == <<r.endLineNumber, r.endColumn>>
PointOf(pos) == <<pos.lineNumber, pos.column>>

LexLT(a, b) == a[1] < b[1] \/ (a[1] = b[1] /\ a[2] < b[2])
LexLE(a, b) == a[1] < b[1] \/ (a[1] = b[1] /\ a[2] <= b[2])

\* Point pt lies between the start and the end of r, both included.
PointInRange(pt, r) == LexLE(StartOf(r), pt) /\ LexLE(pt, EndOf(r))

\* Range t lies within range w: both its end points do.
RangeInside(t, w) == PointInRange(StartOf(t), w) /\ PointInRange(EndOf(t), w)

NonZeroColumns(r) == r.startColumn # 0 /\ r.endColumn # 0

\* The latest callback passed a response to updateToolbarWithSymbols.
PassedSymbols == lastStep \in {"cached", "sync", "resolve"}

\* ... and the response was an array, so the toolbar was rendered from it.
Rendered == PassedSymbols /\ ~symbolsArg.null

\* The segments the toolbar shows.
Displayed == toolbar.segments

\* The indices of the symbols of list S whose range contains position pos.
ContainingIndices(S, pos) ==
    { i \in DOMAIN S : S[i].hasRange /\ PointInRange(PointOf(pos), S[i].range) }

\* trail consists of exactly the symbols of S whose range contains pos, each once.
ExactlyContaining(trail, S, pos) ==
    /\ IsInjective(trail)
    /\ { trail[i] : i \in DOMAIN trail } = { S[i] : i \in ContainingIndices(S, pos) }

----------------------------------------------------------------------------
(* C1 *)

\* C1: debounce coalescing: however many events occur before the delay
\* expires, queueUpdateToolbar leaves at most one refresh timer pending, so
\* a burst causes one run of updateToolbar.
C1_AtMostOneTimerPending == timers <= 1

----------------------------------------------------------------------------
(* C2, C3 *)

\* C2: stale-response discard: a response passed to updateToolbarWithSymbols
\* by the promise callback is that of the most recently started fetch;
\* the response of every fetch started earlier is discarded.
C2_OnlyLatestFetchPassed == lastStep = "resolve" => settled = lastFetchRun

\* Two fetches were started; the newer one resolved first and was rendered,
\* the older one resolved after it and was discarded.
C2_Witness ==
    /\ lastStep = "discard"
    /\ settled < lastFetchRun
    /\ fetches = {}
    /\ Len(Displayed) > 0

\* C3: latest generation wins: a response passed to
\* updateToolbarWithSymbols by the promise callback belongs to the latest
\* run of updateToolbar; once a later run has taken any branch, the
\* response of a fetch started by an earlier run is never rendered: segments
\* the promise callback has just rendered come from the latest run's fetch.
C3_LatestGenerationWins ==
    (lastStep = "resolve" /\ Len(Displayed) > 0) => settled = runs

----------------------------------------------------------------------------
(* C4, C9, C10: under PureSpec *)

\* positionWithinRange applied to a position with a line and a column.
WithinProbed ==
    /\ probe.fn = "positionWithinRange"
    /\ probe.done
    /\ probe.pos.column # Undefined
CompareProbed ==
    /\ probe.fn = "compareSymbols"
    /\ probe.done
    /\ probe.s1.hasRange
    /\ probe.s2.hasRange

\* C4 as stated: positionWithinRange is true iff start <= position < end,
\* the end point excluded.
C4_EndExcluded ==
    WithinProbed =>
        (probe.result <=> /\ LexLE(StartOf(probe.range), PointOf(probe.pos))
                          /\ LexLT(PointOf(probe.pos), EndOf(probe.range)))

\* C4 as amended: positionWithinRange is true iff start <= position <= end,
\* the end point included, except that a position with column 0 on the
\* range's end line is never within.
C4_EndIncluded ==
    WithinProbed =>
        (probe.result <=> /\ PointInRange(PointOf(probe.pos), probe.range)
                          /\ ~(probe.pos.column = 0
                               /\ probe.pos.lineNumber = probe.range.endLineNumber))

\* The position is the end point of the range, and is within it.
C4_Witness ==
    /\ WithinProbed
    /\ PointOf(probe.pos) = EndOf(probe.range)
    /\ LexLT(StartOf(probe.range), EndOf(probe.range))
    /\ probe.pos.column > 0
    /\ probe.result

\* C9: ordering by start: of two symbols whose ranges start at different
\* points, compareSymbols puts the one that starts earlier first, whatever
\* their end points.
C9_EarlierStartFirst ==
    (CompareProbed /\ StartOf(probe.s1.range) # StartOf(probe.s2.range)) =>
        /\ LexLT(StartOf(probe.s1.range), StartOf(probe.s2.range)) => probe.result < 0
        /\ LexLT(StartOf(probe.s2.range), StartOf(probe.s1.range)) => probe.result > 0

\* The first symbol starts earlier on the same line and also ends earlier,
\* and is put first.
C9_Witness ==
    /\ CompareProbed
    /\ probe.s1.range.startLineNumber = probe.s2.range.startLineNumber
    /\ probe.s1.range.startColumn < probe.s2.range.startColumn
    /\ LexLT(EndOf(probe.s1.range), EndOf(probe.s2.range))
    /\ probe.result < 0

\* C10: tie-break on equal starts: of two symbols whose ranges start at the
\* same point and end at different points, compareSymbols puts the one that
\* ends later first.
C10_LaterEndFirst ==
    (/\ CompareProbed
     /\ StartOf(probe.s1.range) = StartOf(probe.s2.range)
     /\ EndOf(probe.s1.range) # EndOf(probe.s2.range)) =>
        /\ LexLT(EndOf(probe.s2.range), EndOf(probe.s1.range)) => probe.result < 0
        /\ LexLT(EndOf(probe.s1.range), EndOf(probe.s2.range)) => probe.result > 0

\* Same start, same end line, the second symbol ends in a later column and
\* is put first.
C10_Witness ==
    /\ CompareProbed
    /\ StartOf(probe.s1.range) = StartOf(probe.s2.range)
    /\ probe.s1.range.endLineNumber = probe.s2.range.endLineNumber
    /\ probe.s1.range.endColumn < probe.s2.range.endColumn
    /\ probe.result > 0

----------------------------------------------------------------------------
(* C11 *)

\* C11: click navigation: a click of a segment sets the cursor to the start
\* of the segment's symbol range, and changes the scroll position only if the
\* target line was not fully visible; when it was fully visible the scroll
\* position is unchanged, whatever the target column.
C11_ClickNavigation ==
    lastStep = "click" =>
        /\ PointOf(position) = click.start
        /\ click.visible => click.scrollTop = click.scrollBefore

----------------------------------------------------------------------------
(* C12 *)

\* C12: cached symbols: once a fetch has delivered a non-empty symbol list
\* and no content change or attach has followed, a refresh whose timer was
\* queued by a cursor move does not call provideDocumentSymbols again,
\* at once ("sync") or with a promise ("fetch").
C12_CursorRefreshUsesCache ==
    [][(delivered /\ lastStep = "cursor" /\ timers = 1 /\ runs' = runs + 1)
           => lastStep' \notin {"sync", "fetch"}]_vars

----------------------------------------------------------------------------
(* C13 *)

\* The live listeners of onDidChangeContent, named by their documents.
ContentListeners == subscriptions \ {CursorListener}

\* C13: subscription scoping: between callbacks at most one content-change
\* listener is live and it is the attached document's (none when no document
\* is attached), and after dispose() neither the content-change nor the
\* cursor-move listener is live.
C13_SubscriptionsScoped ==
    /\ ContentListeners \subseteq (IF model = NoModel THEN {} ELSE {model})
    /\ disposed => subscriptions = {}

----------------------------------------------------------------------------
(* C14: under TrailSpec *)

\* The latest refresh found no document or no provider, or was handed a
\* null list or a list with no symbol whose range contains the cursor.
NothingToShow ==
    \/ lastStep = "noProvider"
    \/ /\ PassedSymbols
       /\ symbolsArg.null \/ ContainingIndices(symbolsArg.list, position) = {}

\* Every symbol whose location.range the heuristic and the rendering loop
\* read has one, so no read fails.
NoMissingRangeRead ==
    \A t \in {previousTrail, matchingSymbols, breadcrumbSymbols, Displayed} :
        \A i \in DOMAIN t : t[i].hasRange

\* C14: silent clearing: when a refresh finds no attached document, no
\* provider, a null list or no symbol whose range contains the cursor
\* (symbols without a range being skipped), the toolbar has no segments
\* when the refresh completes, and no read of a range fails.
C14_SilentClearing ==
    /\ NoMissingRangeRead
    /\ NothingToShow => (Displayed = <<>> /\ ~toolbar.placeholder)

\* A list with a symbol without a range and a symbol whose range does not
\* contain the cursor cleared a toolbar that showed a trail.
C14_Witness ==
    /\ lastStep = "sync"
    /\ ~symbolsArg.null
    /\ \E i, j \in DOMAIN symbolsArg.list :
           ~symbolsArg.list[i].hasRange /\ symbolsArg.list[j].hasRange
    /\ ContainingIndices(symbolsArg.list, position) = {}
    /\ Len(previousTrail) > 0
    /\ Displayed = <<>>

----------------------------------------------------------------------------
(* C15, C18 *)

\* C15: refresh cycle: once events have stopped and every timer has fired and
\* every fetch has resolved, the toolbar's state is computed from a symbol
\* list fetched after the last content change: segments the promise callback
\* has rendered in such a state come from a fetch begun after it.
C15_SettledOnFreshList ==
    (/\ timers = 0
     /\ fetches = {}
     /\ lastStep = "resolve"
     /\ Len(Displayed) > 0) => "content" \notin settledSince

\* C18: no stale render across an edit: a symbol list whose fetch began
\* before a content change or an attach is not rendered after that event.
C18_NoStaleRenderAcrossEdit ==
    (lastStep = "resolve" /\ Rendered) => settledSince = {}

----------------------------------------------------------------------------
(* C16 *)

\* C16: rejected fetch is local: a rejection leaves the toolbar, the cached
\* symbol list and the previous trail as they were, and after it an event
\* can still queue a refresh and a queued refresh can still run.
C16_RejectionChangesNothing ==
    /\ [][lastStep' = "reject" =>
              UNCHANGED <<toolbar, allSymbolsSorted, breadcrumbSymbols>>]_vars
    /\ [](lastStep = "reject" =>
              /\ (~disposed /\ timers < MaxTimers) => ENABLED AttachModel
              /\ (timers > 0 /\ runs < MaxRuns) => ENABLED TimerFires)

\* A fetch was rejected while the toolbar showed a trail, and a refresh
\* is queued.
C16_Witness ==
    /\ lastStep = "reject"
    /\ Len(Displayed) > 0
    /\ timers > 0
    /\ runs < MaxRuns

----------------------------------------------------------------------------
(* C17: under PureSpec *)

\* The probed position has a zero or undefined column.
ZeroColumnProbed ==
    /\ probe.fn = "positionWithinRange"
    /\ probe.done
    /\ probe.pos.column \in {0, Undefined}

\* The probed position is on or after the start point of the range; with
\* an undefined column, it is on a line after the start line.
OnOrAfterStart ==
    IF probe.pos.column = Undefined
    THEN probe.pos.lineNumber > probe.range.startLineNumber
    ELSE LexLE(StartOf(probe.range), PointOf(probe.pos))

\* C17: zero column guard: a position with a zero or undefined column on
\* the range's end line is never within the range, whatever the end column;
\* on a line strictly before the end line, and on or after the start point,
\* it is within the range.
C17_ZeroColumnGuard ==
    ZeroColumnProbed =>
        /\ probe.pos.lineNumber = probe.range.endLineNumber => ~probe.result
        /\ (probe.pos.lineNumber < probe.range.endLineNumber /\ OnOrAfterStart)
               => probe.result

\* Column zero on the end line of a range that starts on an earlier line
\* and ends in a later column: not within.
C17_Witness ==
    /\ ZeroColumnProbed
    /\ probe.pos.column = 0
    /\ probe.pos.lineNumber = probe.range.endLineNumber
    /\ probe.range.startLineNumber < probe.range.endLineNumber
    /\ probe.range.endColumn > 0
    /\ ~probe.result

----------------------------------------------------------------------------
(* C19, C20: under PureSpec *)

\* updateWithBreadcrumbSymbols has been called n times on the probe.
TrailProbed(n) == probe.fn = "updateWithBreadcrumbSymbols" /\ probe.applied = n

\* Sequence a begins with sequence b.
HasPrefix(a, b) == Len(a) >= Len(b) /\ SubSeq(a, 1, Len(b)) = b

\* C19: shape of the heuristic's result: the trail updateWithBreadcrumbSymbols
\* stores has the new trail as a prefix, is as long as the new trail or as
\* the previous trail, and is empty when the new trail is empty.
C19_HeuristicShape ==
    TrailProbed(1) =>
        /\ HasPrefix(probe.stored, probe.matching)
        /\ Len(probe.stored) \in {Len(probe.matching), Len(probe.previous)}
        /\ probe.matching = <<>> => probe.stored = <<>>

\* A previous trail of three and a new trail of one gave a stored trail of
\* three that begins with the new trail.
C19_Witness ==
    /\ TrailProbed(1)
    /\ Len(probe.previous) = 3
    /\ Len(probe.matching) = 1
    /\ Len(probe.stored) = 3
    /\ probe.stored[1] = probe.matching[1]

\* C20: heuristic idempotence: when updateWithBreadcrumbSymbols has stored
\* trail R for new trail T, calling it again with the same T, R now being
\* the previous trail, stores R again.
C20_HeuristicIdempotent ==
    (probe.fn = "updateWithBreadcrumbSymbols" /\ probe.applied >= 2) =>
        probe.stored = probe.first

\* The first call retained a suffix of the previous trail, and the second
\* call kept it.
C20_Witness ==
    /\ TrailProbed(2)
    /\ Len(probe.matching) > 0
    /\ Len(probe.first) > Len(probe.matching)
    /\ probe.stored = probe.first

----------------------------------------------------------------------------
(* C5 - C8: under TrailSpec *)

\* The previous trail is strictly longer than the non-empty new trail, the
\* new trail's ranges equal the previous trail's at the same indices, and
\* the rest of the previous trail lies within the new trail's last range.
RetentionCase ==
    /\ variant = 1
    /\ Rendered
    /\ Len(matchingSymbols) > 0
    /\ Len(previousTrail) > Len(matchingSymbols)
    /\ \A i \in 1..Len(matchingSymbols) :
           matchingSymbols[i].range = previousTrail[i].range
    /\ \A j \in (Len(matchingSymbols) + 1)..Len(previousTrail) :
           RangeInside(previousTrail[j].range,
                       matchingSymbols[Len(matchingSymbols)].range)

\* The new trail followed by the rest of the previous one.
NewThenPreviousSuffix ==
    matchingSymbols \o SubSeq(previousTrail, Len(matchingSymbols) + 1, Len(previousTrail))

\* C5 as stated: in the retention case updateWithBreadcrumbSymbols yields
\* the new trail followed by the previous suffix.
C5_SuffixRetained ==
    RetentionCase =>
        (breadcrumbSymbols = NewThenPreviousSuffix /\ Displayed = NewThenPreviousSuffix)

\* C5 as amended: the same, provided none of the ranges of the new trail
\* and of the previous suffix has a zero start or end column.
C5_SuffixRetainedNonZero ==
    (/\ RetentionCase
     /\ \A i \in 1..Len(matchingSymbols) : NonZeroColumns(matchingSymbols[i].range)
     /\ \A j \in (Len(matchingSymbols) + 1)..Len(previousTrail) :
            NonZeroColumns(previousTrail[j].range)) =>
        (breadcrumbSymbols = NewThenPreviousSuffix /\ Displayed = NewThenPreviousSuffix)

\* Previous trail of three, new trail of two, and the third kept.
C5_Witness ==
    /\ RetentionCase
    /\ Len(previousTrail) = 3
    /\ Len(matchingSymbols) = 2
    /\ \A j \in 1..3 : NonZeroColumns(previousTrail[j].range)
    /\ Len(Displayed) = 3
    /\ Displayed[3] = previousTrail[3]

\* The previous trail is not strictly longer than the new one, or some
\* element of the new trail differs in range from the previous trail's at
\* the same index, or some previous suffix element is not inside the new
\* trail's last element.
MismatchCase ==
    /\ variant = 1
    /\ Rendered
    /\ \/ Len(previousTrail) <= Len(matchingSymbols)
       \/ \E i \in 1..Len(matchingSymbols) :
              /\ i <= Len(previousTrail)
              /\ matchingSymbols[i].range # previousTrail[i].range
       \/ /\ Len(matchingSymbols) > 0
          /\ \E j \in (Len(matchingSymbols) + 1)..Len(previousTrail) :
                 ~RangeInside(previousTrail[j].range,
                              matchingSymbols[Len(matchingSymbols)].range)

\* C6: no retention on mismatch: in the mismatch case
\* updateWithBreadcrumbSymbols yields exactly the new trail.
C6_NoRetentionOnMismatch ==
    MismatchCase => (breadcrumbSymbols = matchingSymbols /\ Displayed = matchingSymbols)

\* The previous trail is longer, the new trail differs from it in the range
\* at some index, and nothing of the previous trail is kept.
C6_Witness ==
    /\ MismatchCase
    /\ Len(previousTrail) > Len(matchingSymbols)
    /\ \E i \in 1..Len(matchingSymbols) :
           /\ matchingSymbols[i].range # previousTrail[i].range
           /\ \A k \in 1..(i - 1) : matchingSymbols[k].range = previousTrail[k].range
    /\ Displayed = matchingSymbols

\* C7 as stated: after a refresh that renders from symbol list S at cursor
\* p, the displayed trail consists of exactly the symbols of S whose range
\* contains p, each once.
C7_ExactlyLiveTrail ==
    Rendered => ExactlyContaining(Displayed, symbolsArg.list, position)

\* C7 as amended: the displayed trail begins with exactly the symbols of S
\* whose range contains p, each once; in the variant with the stability
\* heuristic they may be followed by the rest of the previously stored
\* trail, in the other variant nothing follows.
C7_LiveTrailThenRetained ==
    Rendered =>
        LET k == Cardinality(ContainingIndices(symbolsArg.list, position))
        IN  /\ Len(Displayed) >= k
            /\ ExactlyContaining(SubSeq(Displayed, 1, k), symbolsArg.list, position)
            /\ Len(Displayed) > k =>
                   /\ variant = 1
                   /\ k > 0
                   /\ Len(previousTrail) = Len(Displayed)
                   /\ SubSeq(Displayed, k + 1, Len(Displayed))
                          = SubSeq(previousTrail, k + 1, Len(previousTrail))

\* A rendered trail that shows a symbol whose range does not contain the
\* cursor, after the symbols that do.
C7_Witness ==
    /\ Rendered
    /\ Cardinality(ContainingIndices(symbolsArg.list, position)) > 0
    /\ \E i \in DOMAIN Displayed :
           ~PointInRange(PointOf(position), Displayed[i].range)

\* C8: outer before inner: if two symbols of the rendered trail have
\* different ranges and the range of one encloses the range of the other,
\* the enclosing one comes first.
C8_OuterBeforeInner ==
    Rendered =>
        \A i, j \in DOMAIN Displayed :
            (/\ Displayed[i].range # Displayed[j].range
             /\ LexLE(StartOf(Displayed[i].range), StartOf(Displayed[j].range))
             /\ LexLE(EndOf(Displayed[j].range), EndOf(Displayed[i].range))) => i < j

----------------------------------------------------------------------------
(* C21: under ClearSpec *)

\* The step is a refresh that clears the toolbar: a run that finds no
\* provider, or a run or promise callback whose symbol list is null.
ClearingStep ==
    \/ /\ runs' = runs + 1
       /\ \/ lastStep' = "noProvider"
          \/ lastStep' = "sync" /\ symbolsArg'.null
    \/ /\ fetches' # fetches
       /\ lastStep' = "resolve"
       /\ symbolsArg'.null

\* C21: a refresh that clears the toolbar because there is no provider or
\* the symbol list is null empties the displayed segments and leaves
\* breadcrumbSymbols as it was.
C21_ClearKeepsPreviousTrail ==
    [][ClearingStep =>
          /\ Len(toolbar'.segments) = 0
          /\ breadcrumbSymbols' = breadcrumbSymbols]_vars

\* A trail was stored, a clear left it stored under an empty toolbar, and
\* the next rendering refresh kept the rest of that older trail after its
\* own shorter one.
C21_Witness ==
    /\ variant = 1
    /\ Rendered
    /\ clearedBefore
    /\ RetentionCase
    /\ breadcrumbSymbols = NewThenPreviousSuffix
    /\ Displayed = NewThenPreviousSuffix
    /\ Len(Displayed) > Len(matchingSymbols)

----------------------------------------------------------------------------
(* C22: under PureSpec *)

OrderProbed ==
    /\ probe.fn = "compareSymbols3"
    /\ probe.done

\* Both symbols lack a range, or both have the same one.
SameRange(x, y) ==
    /\ x.hasRange = y.hasRange
    /\ x.hasRange => x.range = y.range

\* C22: comparator consistency: for any three symbols a, b, c, with or
\* without a range, compareSymbols(a, b) = -compareSymbols(b, a); a before
\* or level with b and b before or level with c put a before or level with
\* c, and level with it when both results are 0; and the result is 0 only
\* for symbols whose ranges are identical.
C22_ComparatorConsistent ==
    OrderProbed =>
        /\ probe.ab = -probe.ba
        /\ (probe.ab <= 0 /\ probe.bc <= 0) => probe.ac <= 0
        /\ (probe.ab = 0 /\ probe.bc = 0) => probe.ac = 0
        /\ probe.ab = 0 => SameRange(probe.a, probe.b)

====
